---- MODULE Spec2Model ----
(***************************************************************************)
(* Commitment / proof engine of crypto_layer/merkle_tree.py: the padded    *)
(* full-binary hash tree ("SMT") and the chunked vector commitment         *)
(* ("Verkle-like") built on top of it.                                     *)
(*                                                                         *)
(* Strings.  Every str the engine handles is a concatenation of hex        *)
(* digests, so a str is modelled as the sequence of its 64-character       *)
(* blocks and `+` / "".join as sequence concatenation.  A block is a       *)
(* record [a, h]: a > 0 names a digest supplied by the leaf encoder,       *)
(* a = 0 is the sha256 of the str h.  sha256 is therefore injective        *)
(* (collision-free) and its result is a one-block str.                     *)
(*                                                                         *)
(* Exceptions.  An operator that models a function returns a record whose  *)
(* field `raised` is "none" or the name of the Python exception that ends  *)
(* the call.                                                               *)
(***************************************************************************)
EXTENDS Integers, Sequences, FiniteSets, TLC

\* ------------------------------------------------------------------ bounds
MaxLeaves == 5
MaxChunk == 3

\* the fallback of build_vector_commitments for a non-positive chunk_size
DefaultChunkSize == 8

\* ------------------------------------------------------- Python primitives
\* int // int (floor division); the divisor is not 0
PyFloorDiv(a, b) ==
    LET na == IF a < 0 THEN -a ELSE a
        nb == IF b < 0 THEN -b ELSE b
        q  == na \div nb
        r  == na % nb
    IN  IF (a < 0) = (b < 0) THEN q
        ELSE IF r = 0 THEN -q ELSE -q - 1

\* int % int (sign of the divisor); the divisor is not 0
PyMod(a, b) == a - b * PyFloorDiv(a, b)

\* int ^ 1 on a two's-complement integer of any sign
Xor1(x) == IF PyMod(x, 2) = 0 THEN x + 1 ELSE x - 1

\* list[k] is defined for -len <= k < len; a negative k counts from the end
PyInRange(s, k) == -Len(s) <= k /\ k < Len(s)
PyGet(s, k) == IF k >= 0 THEN s[k + 1] ELSE s[Len(s) + k + 1]

\* list[a:b]: both ends wrap when negative and are then clamped to 0..len
PyClamp(s, k) ==
    LET w == IF k < 0 THEN k + Len(s) ELSE k
    IN  IF w < 0 THEN 0 ELSE IF w > Len(s) THEN Len(s) ELSE w
PySlice(s, a, b) ==
    LET lo == PyClamp(s, a)
        hi == PyClamp(s, b)
    IN  IF lo < hi THEN SubSeq(s, lo + 1, hi) ELSE <<>>

\* "".join(list of str)
RECURSIVE Join(_)
Join(strs) == IF strs = <<>> THEN <<>> ELSE Head(strs) \o Join(Tail(strs))

\* ------------------------------------------------------------------ sha256
\* a hash that reads only the first 64 characters of its input
sha256_first_block(data) == << [a |-> 0, h |-> PySlice(data, 0, 1)] >>

sha256(data) == << [a |-> 0, h |-> data] >>

\* a digest produced by the external leaf encoder
Leaf(k) == << [a |-> k, h |-> <<>>] >>

\* -------------------------------------------------------------- SMT levels
RECURSIVE NextPow2Loop(_, _)
NextPow2Loop(p, n) == IF p < n THEN NextPow2Loop(2 * p, n) ELSE p

\* the loop written with p <= n
RECURSIVE NextPow2LoopLe(_, _)
NextPow2LoopLe(p, n) == IF p <= n THEN NextPow2LoopLe(2 * p, n) ELSE p

_next_power_of_two_le(n) == NextPow2LoopLe(1, n)

_next_power_of_two(n) == NextPow2Loop(1, n)

\* the for loop of build_smt_levels over one level: prev[i + 1] raises
\* IndexError when the level has an odd number of nodes
RECURSIVE PairUp(_, _)
PairUp(prev, i) ==
    IF i >= Len(prev) THEN [raised |-> "none", nodes |-> <<>>]
    ELSE IF ~PyInRange(prev, i + 1) THEN [raised |-> "IndexError", nodes |-> <<>>]
    ELSE LET rest == PairUp(prev, i + 2)
         IN  [raised |-> rest.raised,
              nodes  |-> <<sha256(PyGet(prev, i) \o PyGet(prev, i + 1))>> \o rest.nodes]

\* the while loop of build_smt_levels
RECURSIVE LevelLoop(_)
LevelLoop(levels) ==
    IF Len(levels[Len(levels)]) <= 1 THEN [raised |-> "none", levels |-> levels]
    ELSE LET nxt == PairUp(levels[Len(levels)], 0)
         IN  IF nxt.raised # "none" THEN [raised |-> nxt.raised, levels |-> <<>>]
             ELSE LevelLoop(Append(levels, nxt.nodes))

Padded(lvs) ==
    LET size == _next_power_of_two(Len(lvs))
    IN  lvs \o [k \in 1..(size - Len(lvs)) |-> lvs[Len(lvs)]]

build_smt_levels(lvs) ==
    IF lvs = <<>> THEN [raised |-> "none", levels |-> << <<sha256(<<>>)>> >>]
    ELSE LevelLoop(<< Padded(lvs) >>)

get_smt_root(lvs) ==
    LET b == build_smt_levels(lvs)
    IN  IF b.raised # "none" THEN [raised |-> b.raised, root |-> <<>>]
        ELSE [raised |-> "none", root |-> b.levels[Len(b.levels)][1]]

\* the sibling walk shared by get_smt_proof and get_verkle_proof, from `level`
\* (1-based) up to the level below the root
RECURSIVE SiblingPath(_, _, _)
SiblingPath(levels, level, idx) ==
    IF level > Len(levels) - 1 THEN [raised |-> "none", proof |-> <<>>]
    ELSE LET nodes   == levels[level]
             sibling == Xor1(idx)
             pick    == IF sibling < Len(nodes) THEN sibling ELSE idx
         IN  IF ~PyInRange(nodes, pick) THEN [raised |-> "IndexError", proof |-> <<>>]
             ELSE LET rest == SiblingPath(levels, level + 1, PyFloorDiv(idx, 2))
                  IN  [raised |-> rest.raised,
                       proof  |-> IF rest.raised # "none" THEN <<>>
                                  ELSE <<PyGet(nodes, pick)>> \o rest.proof]

get_smt_proof(lvs, idx) ==
    LET b == build_smt_levels(lvs)
    IN  IF b.raised # "none" THEN [raised |-> b.raised, proof |-> <<>>]
        ELSE SiblingPath(b.levels, 1, idx)

\* the replay loop without the parity test: the sibling always on the right
RECURSIVE ReplayNoParity(_, _, _)
ReplayNoParity(h, proof, idx) ==
    IF proof = <<>> THEN h
    ELSE ReplayNoParity(sha256(h \o Head(proof)), Tail(proof), PyFloorDiv(idx, 2))

\* the replay loop shared by verify_smt_proof and verify_verkle_proof
RECURSIVE Replay(_, _, _)
Replay(h, proof, idx) ==
    IF proof = <<>> THEN h
    ELSE Replay(IF PyMod(idx, 2) = 0 THEN sha256(h \o Head(proof))
                                     ELSE sha256(Head(proof) \o h),
                Tail(proof), PyFloorDiv(idx, 2))

verify_smt_proof(leaf_hash, proof, idx, root) ==
    [raised |-> "none", ret |-> (Replay(leaf_hash, proof, idx) = root)]

\* ------------------------------------------------- vector commitments
\* [leaves[i : i + chunk_size] for i in range(0, len(leaves), chunk_size)]
RECURSIVE Chunks(_, _, _)
Chunks(lvs, i, cs) ==
    IF i >= Len(lvs) THEN <<>>
    ELSE <<PySlice(lvs, i, i + cs)>> \o Chunks(lvs, i + cs, cs)

\* a chunk padded to chunk_size by repeating its last element
PadChunk(chunk, cs) ==
    chunk \o [k \in 1..(cs - Len(chunk)) |-> chunk[Len(chunk)]]

\* build_vector_commitments committing to padded chunks
build_vector_commitments_padded(lvs, cs_arg) ==
    LET cs          == IF cs_arg <= 0 THEN DefaultChunkSize ELSE cs_arg
        chunks      == Chunks(lvs, 0, cs)
        commitments == [k \in 1..Len(chunks) |-> sha256(Join(PadChunk(chunks[k], cs)))]
        outer       == build_smt_levels(commitments)
    IN  [raised |-> outer.raised,
         commitments |-> IF outer.raised # "none" THEN <<>> ELSE commitments,
         outer_levels |-> outer.levels]

build_vector_commitments(lvs, cs_arg) ==
    LET cs          == IF cs_arg <= 0 THEN DefaultChunkSize ELSE cs_arg
        chunks      == Chunks(lvs, 0, cs)
        commitments == [k \in 1..Len(chunks) |-> sha256(Join(chunks[k]))]
        outer       == build_smt_levels(commitments)
    IN  [raised |-> outer.raised,
         commitments |-> IF outer.raised # "none" THEN <<>> ELSE commitments,
         outer_levels |-> outer.levels]

\* get_verkle_root reading outer[0][0] in place of outer[-1][0]
get_verkle_root_first(lvs, cs) ==
    LET b == build_vector_commitments(lvs, cs)
    IN  IF b.raised # "none" THEN [raised |-> b.raised, root |-> <<>>]
        ELSE [raised |-> "none", root |-> b.outer_levels[1][1]]

get_verkle_root(lvs, cs) ==
    LET b == build_vector_commitments(lvs, cs)
    IN  IF b.raised # "none" THEN [raised |-> b.raised, root |-> <<>>]
        ELSE [raised |-> "none", root |-> b.outer_levels[Len(b.outer_levels)][1]]

NoProofObj ==
    [inner_chunk |-> <<>>, inner_index |-> 0, outer_proof |-> <<>>,
     chunk_commitment |-> <<>>]

VerkleRaise(e) == [raised |-> e, proof_obj |-> NoProofObj]

get_verkle_proof(lvs, idx, cs) ==
    LET b == build_vector_commitments(lvs, cs)
    IN  IF b.raised # "none" THEN VerkleRaise(b.raised)
        ELSE IF cs = 0 THEN VerkleRaise("ZeroDivisionError")
        ELSE LET chunk_idx   == PyFloorDiv(idx, cs)
                 inner_index == PyMod(idx, cs)
                 start       == chunk_idx * cs
                 inner_chunk == PySlice(lvs, start, start + cs)
             IN  IF ~PyInRange(b.commitments, chunk_idx) THEN VerkleRaise("IndexError")
                 ELSE LET path == SiblingPath(b.outer_levels, 1, chunk_idx)
                      IN  IF path.raised # "none" THEN VerkleRaise(path.raised)
                          ELSE [raised |-> "none",
                                proof_obj |->
                                  [inner_chunk |-> inner_chunk,
                                   inner_index |-> inner_index,
                                   outer_proof |-> path.proof,
                                   chunk_commitment |-> PyGet(b.commitments, chunk_idx)]]

\* verify_verkle_proof trusting the chunk_commitment field: no recomputation
verify_verkle_proof_unchecked(leaf_hash, proof_obj, idx, root, cs) ==
    IF cs = 0 THEN [raised |-> "ZeroDivisionError", ret |-> FALSE]
    ELSE [raised |-> "none",
          ret |-> (Replay(proof_obj.chunk_commitment, proof_obj.outer_proof,
                          PyFloorDiv(idx, cs)) = root)]

\* verify_verkle_proof with the equality check inner_chunk[inner_index] ==
\* leaf_hash added in front
verify_verkle_proof_leaf_checked(leaf_hash, proof_obj, idx, root, cs) ==
    LET recomputed_chunk == sha256(Join(proof_obj.inner_chunk))
    IN  IF \/ proof_obj.inner_index < 0
           \/ proof_obj.inner_index >= Len(proof_obj.inner_chunk)
           \/ PyGet(proof_obj.inner_chunk, proof_obj.inner_index) # leaf_hash
        THEN [raised |-> "none", ret |-> FALSE]
        ELSE IF recomputed_chunk # proof_obj.chunk_commitment
        THEN [raised |-> "none", ret |-> FALSE]
        ELSE IF cs = 0 THEN [raised |-> "ZeroDivisionError", ret |-> FALSE]
        ELSE [raised |-> "none",
              ret |-> (Replay(recomputed_chunk, proof_obj.outer_proof,
                              PyFloorDiv(idx, cs)) = root)]

verify_verkle_proof(leaf_hash, proof_obj, idx, root, cs) ==
    LET recomputed_chunk == sha256(Join(proof_obj.inner_chunk))
    IN  IF recomputed_chunk # proof_obj.chunk_commitment
        THEN [raised |-> "none", ret |-> FALSE]
        ELSE IF cs = 0 THEN [raised |-> "ZeroDivisionError", ret |-> FALSE]
        ELSE [raised |-> "none",
              ret |-> (Replay(recomputed_chunk, proof_obj.outer_proof,
                              PyFloorDiv(idx, cs)) = root)]

\* ------------------------------------------------ compatibility helpers
build_merkle_tree(lvs) == build_smt_levels(lvs)

get_merkle_root(lvs) == get_verkle_root(lvs, DefaultChunkSize)

\* --------------------------------------------------------------- the calls
\* leaves, index, chunk_size: the arguments the caller holds;
\* call: the last call made with them: the function, the arguments it took
\* besides leaves / index / chunk_size (a verification takes an index of its
\* own), the exception it raised ("none" when it returned) and what it returned.
VARIABLES leaves, index, chunk_size, call

vars == <<leaves, index, chunk_size, call>>

LeafDigests == {Leaf(1), Leaf(2)}

RECURSIVE SeqsUpTo(_, _)
SeqsUpTo(S, n) ==
    IF n = 0 THEN {<<>>}
    ELSE LET shorter == SeqsUpTo(S, n - 1)
         IN  shorter \cup {Append(q, x) : q \in {r \in shorter : Len(r) = n - 1}, x \in S}

LeafLists  == SeqsUpTo(LeafDigests, MaxLeaves)
Indices    == (0 - 3)..(MaxLeaves + 1)
ChunkSizes == (0 - 1)..MaxChunk

NoCall ==
    [op |-> "none", raised |-> "none",
     leaf_hash |-> <<>>, proof |-> <<>>, proof_obj |-> NoProofObj, root |-> <<>>,
     index |-> 0, levels |-> <<>>, commitments |-> <<>>, ret |-> FALSE]

\* the callers of the hash tree pass no chunk_size
InitSmt ==
    /\ leaves \in LeafLists
    /\ index \in Indices
    /\ chunk_size = DefaultChunkSize
    /\ call = NoCall

InitVerkle ==
    /\ leaves \in LeafLists
    /\ index \in Indices
    /\ chunk_size \in ChunkSizes
    /\ call = NoCall

\* The functions are pure and keep nothing between calls, so a behaviour is
\* one call made on the arguments drawn by Init.
Called(c) == /\ call.op = "none"
             /\ call' = c
             /\ UNCHANGED <<leaves, index, chunk_size>>

BuildSmtLevels ==
    LET r == build_smt_levels(leaves)
    IN  Called([NoCall EXCEPT !.op = "build_smt_levels", !.raised = r.raised,
                              !.levels = r.levels])

GetSmtRoot ==
    LET r == get_smt_root(leaves)
    IN  Called([NoCall EXCEPT !.op = "get_smt_root", !.raised = r.raised,
                              !.root = r.root])

GetSmtProof ==
    LET r == get_smt_proof(leaves, index)
    IN  Called([NoCall EXCEPT !.op = "get_smt_proof", !.raised = r.raised,
                              !.proof = r.proof])

\* digests a caller may put in the place of an honest one
OtherDigests == LeafDigests \cup {sha256(<<>>)}

\* p with position k replaced by d
Replaced(p, k, d) == [p EXCEPT ![k] = d]

\* the proofs handed to verify_smt_proof: the honest one for (leaves, index),
\* the honest one with one sibling replaced, cut short or extended, and none
SmtProofArgs ==
    LET g == get_smt_proof(leaves, index)
        honest == IF g.raised = "none" THEN {g.proof} ELSE {}
    IN  honest
        \cup {Replaced(p, k, d) : p \in honest, k \in 1..Len(g.proof), d \in OtherDigests}
        \cup {SubSeq(p, 1, Len(p) - 1) : p \in {q \in honest : q # <<>>}}
        \cup {Append(p, d) : p \in honest, d \in LeafDigests}
        \cup {<<>>}

\* the index handed to a verification: the one the proof is for, or the next
VerifyIndexArgs == {index, index + 1}

SmtRootArgs ==
    LET g == get_smt_root(leaves)
    IN  (IF g.raised = "none" THEN {g.root} ELSE {}) \cup {sha256(<<>>)}

VerifySmtProof ==
    \E leaf_hash \in LeafDigests, proof \in SmtProofArgs, idx \in VerifyIndexArgs,
       root \in SmtRootArgs :
        LET r == verify_smt_proof(leaf_hash, proof, idx, root)
        IN  Called([NoCall EXCEPT !.op = "verify_smt_proof", !.raised = r.raised,
                                  !.leaf_hash = leaf_hash, !.proof = proof,
                                  !.index = idx, !.root = root, !.ret = r.ret])

BuildVectorCommitments ==
    LET r == build_vector_commitments(leaves, chunk_size)
    IN  Called([NoCall EXCEPT !.op = "build_vector_commitments", !.raised = r.raised,
                              !.commitments = r.commitments, !.levels = r.outer_levels])

GetVerkleRoot ==
    LET r == get_verkle_root(leaves, chunk_size)
    IN  Called([NoCall EXCEPT !.op = "get_verkle_root", !.raised = r.raised,
                              !.root = r.root])

GetVerkleProof ==
    LET r == get_verkle_proof(leaves, index, chunk_size)
    IN  Called([NoCall EXCEPT !.op = "get_verkle_proof", !.raised = r.raised,
                              !.proof_obj = r.proof_obj])

\* the proof objects handed to verify_verkle_proof: the honest one for
\* (leaves, index, chunk_size); the honest one with an element of the inner
\* chunk, a sibling of the outer path or the commitment replaced; the honest
\* one with another inner_index; and a forged one whose inner chunk is
\* replaced together with its commitment; and the honest one for the default
\* chunk size
VerkleProofArgs ==
    LET g == get_verkle_proof(leaves, index, chunk_size)
        honest == IF g.raised = "none" THEN {g.proof_obj} ELSE {}
        p == g.proof_obj
        default == get_verkle_proof(leaves, index, DefaultChunkSize)
    IN  honest
        \cup (IF default.raised = "none" THEN {default.proof_obj} ELSE {})
        \cup {[o EXCEPT !.inner_chunk = Replaced(p.inner_chunk, k, d)] :
                 o \in honest, k \in 1..Len(p.inner_chunk), d \in LeafDigests}
        \cup {[o EXCEPT !.outer_proof = Replaced(p.outer_proof, k, d)] :
                 o \in honest, k \in 1..Len(p.outer_proof), d \in OtherDigests}
        \cup {[o EXCEPT !.chunk_commitment = d] : o \in honest, d \in OtherDigests}
        \cup {[o EXCEPT !.inner_index = p.inner_index + 1] : o \in honest}
        \cup {[NoProofObj EXCEPT !.inner_chunk = <<d>>, !.chunk_commitment = sha256(d)] :
                 d \in LeafDigests}
        \cup {NoProofObj}

VerkleRootArgs ==
    LET g == get_verkle_root(leaves, chunk_size)
    IN  (IF g.raised = "none" THEN {g.root} ELSE {}) \cup {sha256(<<>>)}

VerifyVerkleProof ==
    \E leaf_hash \in LeafDigests, proof_obj \in VerkleProofArgs,
       idx \in VerifyIndexArgs, root \in VerkleRootArgs :
        LET r == verify_verkle_proof(leaf_hash, proof_obj, idx, root, chunk_size)
        IN  Called([NoCall EXCEPT !.op = "verify_verkle_proof", !.raised = r.raised,
                                  !.leaf_hash = leaf_hash, !.proof_obj = proof_obj,
                                  !.index = idx, !.root = root, !.ret = r.ret])

BuildMerkleTree ==
    LET r == build_merkle_tree(leaves)
    IN  Called([NoCall EXCEPT !.op = "build_merkle_tree", !.raised = r.raised,
                              !.levels = r.levels])

GetMerkleRoot ==
    LET r == get_merkle_root(leaves)
    IN  Called([NoCall EXCEPT !.op = "get_merkle_root", !.raised = r.raised,
                              !.root = r.root])

NextSmt ==
    \/ BuildSmtLevels
    \/ GetSmtRoot
    \/ GetSmtProof
    \/ VerifySmtProof
    \/ BuildMerkleTree

NextVerkle ==
    \/ BuildVectorCommitments
    \/ GetVerkleRoot
    \/ GetVerkleProof
    \/ VerifyVerkleProof
    \/ GetMerkleRoot

SpecSmt == InitSmt /\ [][NextSmt]_vars

SpecVerkle == InitVerkle /\ [][NextVerkle]_vars

\* ---------------------------------------------------------------- claims
ValidIndex == 0 <= index /\ index < Len(leaves)

Returned == call.raised = "none"

\* q is p with exactly one position holding another value
OneReplaced(p, q) ==
    /\ Len(q) = Len(p)
    /\ \E k \in 1..Len(p) :
          /\ q[k] # p[k]
          /\ \A j \in 1..Len(p) : j # k => q[j] = p[j]

RECURSIVE IsPow2(_)
IsPow2(n) == n = 1 \/ (n > 1 /\ n % 2 = 0 /\ IsPow2(n \div 2))

\* the call verify_smt_proof(L[i], get_smt_proof(L, i), i, get_smt_root(L))
HonestSmtVerify ==
    /\ call.op = "verify_smt_proof"
    /\ ValidIndex
    /\ call.leaf_hash = PyGet(leaves, index)
    /\ call.proof = get_smt_proof(leaves, index).proof
    /\ call.index = index
    /\ call.root = get_smt_root(leaves).root

\* C1: SMT round trip. For a valid index i of a non-empty L, get_smt_proof and
\* get_smt_root return, and verify_smt_proof on the leaf L[i], the proof
\* get_smt_proof(L, i), i and the root get_smt_root(L) returns True.
C1_SmtRoundTrip ==
    ValidIndex =>
        /\ get_smt_proof(leaves, index).raised = "none"
        /\ get_smt_root(leaves).raised = "none"
        /\ HonestSmtVerify => (Returned /\ call.ret)

\* scenario A: 5 leaves, index 3, a proof of length 3 and a True result
C1_Witness ==
    /\ HonestSmtVerify
    /\ Len(leaves) = 5 /\ index = 3
    /\ Len(call.proof) = 3
    /\ Returned /\ call.ret

\* the call verify_verkle_proof(L[i], get_verkle_proof(L, i, cs), i,
\* get_verkle_root(L, cs), cs) with cs >= 1
HonestVerkleVerify ==
    /\ call.op = "verify_verkle_proof"
    /\ ValidIndex
    /\ chunk_size >= 1
    /\ get_verkle_proof(leaves, index, chunk_size).raised = "none"
    /\ call.proof_obj = get_verkle_proof(leaves, index, chunk_size).proof_obj
    /\ call.index = index
    /\ call.root = get_verkle_root(leaves, chunk_size).root

\* C2: Verkle round trip. For a valid index i of a non-empty L and a
\* chunk_size >= 1, get_verkle_proof and get_verkle_root return, and
\* verify_verkle_proof on L[i], that proof, i, that root and chunk_size returns
\* True.
C2_VerkleRoundTrip ==
    (ValidIndex /\ chunk_size >= 1) =>
        /\ get_verkle_proof(leaves, index, chunk_size).raised = "none"
        /\ get_verkle_root(leaves, chunk_size).raised = "none"
        /\ (HonestVerkleVerify /\ call.leaf_hash = PyGet(leaves, index))
               => (Returned /\ call.ret)

\* 5 leaves in chunks of 2: the leaf of the shorter final chunk, whose
\* commitment sits in an outer tree padded from 3 to 4
C2_Witness ==
    /\ HonestVerkleVerify
    /\ call.leaf_hash = PyGet(leaves, index)
    /\ Len(leaves) = 5 /\ chunk_size = 2 /\ index = 4
    /\ Len(call.proof_obj.inner_chunk) = 1
    /\ Len(call.proof_obj.outer_proof) = 2
    /\ Returned /\ call.ret

\* C3: index precondition. get_smt_proof called with an index that is negative
\* or >= len(L) ends in an error and returns no proof.
C3_IndexPrecondition ==
    (call.op = "get_smt_proof" /\ ~ValidIndex) => ~Returned

\* C4: verification never raises. verify_smt_proof and verify_verkle_proof
\* return a boolean for every leaf digest, proof, index, root and chunk_size.
C4_VerifyNeverRaises ==
    call.op \in {"verify_smt_proof", "verify_verkle_proof"} => Returned

\* C5: chunk-size normalization. With chunk_size <= 0 and a valid index, each
\* Verkle operation returns exactly what it returns for chunk_size = 8.
C5_ChunkSizeNormalized ==
    (chunk_size <= 0 /\ ValidIndex) =>
        /\ call.op = "build_vector_commitments" =>
              [raised |-> call.raised, commitments |-> call.commitments,
               outer_levels |-> call.levels]
                  = build_vector_commitments(leaves, DefaultChunkSize)
        /\ call.op = "get_verkle_root" =>
              [raised |-> call.raised, root |-> call.root]
                  = get_verkle_root(leaves, DefaultChunkSize)
        /\ call.op = "get_verkle_proof" =>
              [raised |-> call.raised, proof_obj |-> call.proof_obj]
                  = get_verkle_proof(leaves, index, DefaultChunkSize)
        /\ call.op = "verify_verkle_proof" =>
              [raised |-> call.raised, ret |-> call.ret]
                  = verify_verkle_proof(call.leaf_hash, call.proof_obj, call.index,
                                        call.root, DefaultChunkSize)

\* the proof object of the call is the one get_verkle_proof returned with one
\* element of its inner chunk replaced by another digest
InnerElementReplaced ==
    LET g == get_verkle_proof(leaves, index, chunk_size)
    IN  /\ g.raised = "none"
        /\ OneReplaced(g.proof_obj.inner_chunk, call.proof_obj.inner_chunk)
        /\ call.proof_obj = [g.proof_obj EXCEPT !.inner_chunk = call.proof_obj.inner_chunk]

\* C6: a tampered chunk is rejected. verify_verkle_proof returns False for
\* every proof object whose inner_chunk does not hash to its chunk_commitment,
\* whatever the other arguments are; in particular for an honest proof with one
\* element of the inner chunk replaced by another digest.
C6_TamperedChunkRejected ==
    call.op = "verify_verkle_proof" =>
        /\ sha256(Join(call.proof_obj.inner_chunk)) # call.proof_obj.chunk_commitment
               => (Returned /\ ~call.ret)
        /\ InnerElementReplaced => (Returned /\ ~call.ret)

\* the negative test: the first element of the inner chunk of an honest proof
\* replaced, every other argument honest
C6_Witness ==
    /\ call.op = "verify_verkle_proof"
    /\ ValidIndex /\ chunk_size >= 2 /\ Len(leaves) > chunk_size
    /\ InnerElementReplaced
    /\ call.proof_obj.inner_chunk[1]
           # get_verkle_proof(leaves, index, chunk_size).proof_obj.inner_chunk[1]
    /\ call.leaf_hash = PyGet(leaves, index)
    /\ call.index = index
    /\ call.root = get_verkle_root(leaves, chunk_size).root
    /\ Returned /\ ~call.ret

\* C7: a tampered sibling is rejected. For a valid index i, the honest leaf and
\* root, and the proof get_smt_proof(L, i) with one sibling replaced by another
\* digest, verify_smt_proof returns False.
C7_TamperedSiblingRejected ==
    ( /\ call.op = "verify_smt_proof"
      /\ ValidIndex
      /\ call.leaf_hash = PyGet(leaves, index)
      /\ call.index = index
      /\ call.root = get_smt_root(leaves).root
      /\ OneReplaced(get_smt_proof(leaves, index).proof, call.proof) )
        => (Returned /\ ~call.ret)

\* the top sibling of a 3-level proof replaced
C7_Witness ==
    /\ call.op = "verify_smt_proof"
    /\ ValidIndex /\ Len(leaves) = 5
    /\ call.leaf_hash = PyGet(leaves, index)
    /\ call.index = index
    /\ call.root = get_smt_root(leaves).root
    /\ OneReplaced(get_smt_proof(leaves, index).proof, call.proof)
    /\ call.proof[3] # get_smt_proof(leaves, index).proof[3]
    /\ Returned /\ ~call.ret

\* C8: the known gap. The result of verify_verkle_proof depends neither on
\* leaf_hash nor on the proof's inner_index: the same call with another leaf
\* digest and another inner_index gives the same result, so an honest proof for
\* index i verifies for a leaf digest that is not inner_chunk[inner_index].
C8_LeafHashIgnored ==
    call.op = "verify_verkle_proof" =>
        /\ \A d \in OtherDigests, ii \in {0, call.proof_obj.inner_index + 1} :
              verify_verkle_proof(d, [call.proof_obj EXCEPT !.inner_index = ii],
                                  call.index, call.root, chunk_size)
                  = [raised |-> call.raised, ret |-> call.ret]
        /\ HonestVerkleVerify => (Returned /\ call.ret)

\* an honest proof verified for a leaf digest other than the one it is for
C8_Witness ==
    /\ HonestVerkleVerify
    /\ call.leaf_hash
           # PyGet(call.proof_obj.inner_chunk, call.proof_obj.inner_index)
    /\ call.leaf_hash # PyGet(leaves, index)
    /\ Returned /\ call.ret

\* C9: the shape of the levels. build_smt_levels(L) returns; level 0 has the
\* smallest power of two >= len(L) nodes (1 for the empty L); every later level
\* has half the nodes of the one before it; the last level has one node.
C9_LevelsShape ==
    call.op = "build_smt_levels" =>
        /\ Returned
        /\ Len(call.levels) >= 1
        /\ LET size == Len(call.levels[1])
           IN  /\ IsPow2(size)
               /\ size >= Len(leaves)
               /\ size = 1 \/ size \div 2 < Len(leaves)
        /\ \A k \in 1..(Len(call.levels) - 1) :
              2 * Len(call.levels[k + 1]) = Len(call.levels[k])
        /\ Len(call.levels[Len(call.levels)]) = 1

\* 5 leaves padded to 8: levels of 8, 4, 2 and 1 nodes
C9_Witness ==
    /\ call.op = "build_smt_levels"
    /\ Len(leaves) = 5
    /\ Len(call.levels) = 4
    /\ Len(call.levels[1]) = 8
    /\ Len(call.levels[4]) = 1

\* C10: no separation between chunk commitments and inner nodes. For L of a
\* power-of-two length >= 2, get_verkle_root(L, 2) equals get_smt_root(L).
C10_VerkleRootIsSmtRoot ==
    ( /\ call.op = "get_verkle_root"
      /\ chunk_size = 2
      /\ Len(leaves) >= 2 /\ IsPow2(Len(leaves)) )
        => (Returned /\ call.root = get_smt_root(leaves).root)

\* 4 leaves: two chunk commitments, one outer combination
C10_Witness ==
    /\ call.op = "get_verkle_root"
    /\ chunk_size = 2
    /\ Len(leaves) = 4
    /\ Returned
    /\ call.root = get_smt_root(leaves).root
    /\ call.root # sha256(<<>>)

====
